---- MODULE Spec2Model ----
(***************************************************************************)
(* Dancing Links (DLX) exact-cover engine of DLSS_final.cpp.               *)
(*                                                                         *)
(* The pointer structure is kept as an arena: every Node / Column is an    *)
(* integer id, and the fields L, R, U, D, C, rowID, size are functions on   *)
(* the ids allocated so far.  id 0 is DLX::head, the column with index i   *)
(* is id i+1 (cols[i]), data nodes get the following ids in the order of   *)
(* `new Node()` (the nodes vector).                                        *)
(***************************************************************************)
EXTENDS Integers, Sequences, FiniteSets, TLC

\* ---------------------------------------------------------------- bounds
MaxCols == 4
MaxRows == 3
MaxPre == 2
MaxCovers == 3
MaxCalls == 2

\* ------------------------------------------------------- program values
head == 0
NullCol == -1
InitMinSize == 1000000000

VARIABLES
    L, R, U, D,     \* Node::L, R, U, D          id -> id
    C,              \* Node::C                   id -> column id
    rowID,          \* Node::rowID               id -> Int
    size,           \* Column::size              header id -> Int
    cols,           \* DLX::cols                 sequence of column ids
    nodes,          \* DLX::nodes                sequence of data node ids
    solution,       \* DLX::solution             sequence of rowIDs
    rowNodes,       \* the caller's row under construction (addNode results)
    nrows,          \* number of rows linked so far (the caller's next rowID)
    pc,             \* position of the program
    stack,          \* active search() frames: [c |-> column, r |-> row node]
    ret,            \* value returned by the search() call that just returned
    results,        \* values returned by the completed top-level search() calls
    snap,           \* links, sizes and solution when the outermost call began
    cstack,         \* columns covered by direct cover() calls, not yet uncovered
    covered,        \* every column a direct cover() call was given, in call order
    open,           \* history: the columns of the cover() calls not yet undone, oldest first
    lifo,           \* history: every uncover(x) so far found cover(x) last in open
    steps           \* history: steps search() has taken since the top-level call

vars == <<L, R, U, D, C, rowID, size, cols, nodes, solution, rowNodes, nrows,
          pc, stack, ret, results, snap, cstack, covered, open, lifo, steps>>

\* ------------------------------------------------------------ the arena
Ids(m) == DOMAIN m.L

Ext(f, k, v) == [x \in (DOMAIN f) \cup {k} |-> IF x = k THEN v ELSE f[x]]

\* The mutable part of the matrix, as the record the operations work on.
\* hang records a pointer walk that never comes back to its start.
Mx == [L |-> L, R |-> R, U |-> U, D |-> D, S |-> size, hang |-> FALSE,
       open |-> open, lifo |-> lifo]

Fuel(m) == Cardinality(Ids(m)) + 1

\* Node(): a self-loop in all four directions.
NewNode(m, n) ==
    [m EXCEPT !.L = Ext(m.L, n, n), !.R = Ext(m.R, n, n),
              !.U = Ext(m.U, n, n), !.D = Ext(m.D, n, n)]

\* Column(): a Node with size 0.
NewColumn(m, c) == [NewNode(m, c) EXCEPT !.S = Ext(m.S, c, 0)]

\* An insertColumn that puts c immediately to the left of head.
insertColumnBeforeHead(m, c) ==
    LET m1 == [m EXCEPT !.R[c] = head]
        m2 == [m1 EXCEPT !.L[c] = m1.L[head]]
        m3 == [m2 EXCEPT !.R[m2.L[head]] = c]
    IN  [m3 EXCEPT !.L[head] = c]

\* DLX::insertColumn: c goes immediately to the right of head.
insertColumn(m, c) ==
    LET m1 == [m EXCEPT !.R[c] = m.R[head]]
        m2 == [m1 EXCEPT !.L[c] = head]
        m3 == [m2 EXCEPT !.L[m2.R[head]] = c]
    IN  [m3 EXCEPT !.R[head] = c]

\* DLX::DLX(numCols): head is a self-loop, then one column per index.
RECURSIVE Construct(_, _, _)
Construct(m, i, numCols) ==
    IF i >= numCols THEN m
    ELSE Construct(insertColumn(NewColumn(m, i + 1), i + 1), i + 1, numCols)

EmptyMx ==
    [L |-> (head :> head), R |-> (head :> head), U |-> (head :> head),
     D |-> (head :> head), S |-> (head :> 0), hang |-> FALSE,
     open |-> <<>>, lifo |-> TRUE]

Init ==
    \E numCols \in 1..MaxCols :
        LET m == Construct(EmptyMx, 0, numCols) IN
        /\ L = m.L /\ R = m.R /\ U = m.U /\ D = m.D /\ size = m.S
        /\ C = [x \in 0..numCols |-> x]
        /\ rowID = [x \in 0..numCols |-> -1]
        /\ cols = [i \in 1..numCols |-> i]
        /\ nodes = <<>>
        /\ solution = <<>>
        /\ rowNodes = <<>>
        /\ nrows = 0
        /\ pc = "build"
        /\ stack = <<>>
        /\ ret = FALSE
        /\ results = <<>>
        /\ snap = [L |-> m.L, R |-> m.R, U |-> m.U, D |-> m.D, S |-> m.S,
                    sol |-> <<>>, open |-> <<>>]
        /\ cstack = <<>>
        /\ covered = <<>>
        /\ open = <<>>
        /\ lifo = TRUE
        /\ steps = 0

\* ------------------------------------------------------ cover / uncover
\* A CoverRow that unlinks the node at row->R only (an `if` for the inner `for`).
CoverRowOneNode(m, row, node, fuel) ==
    IF node = row THEN m
    ELSE LET m1 == [m EXCEPT !.U[m.D[node]] = m.U[node]]
             m2 == [m1 EXCEPT !.D[m1.U[node]] = m1.D[node]]
         IN  [m2 EXCEPT !.S[C[node]] = @ - 1]

\* Inner loop of cover: every other node of the row leaves its column.
RECURSIVE CoverRow(_, _, _, _)
CoverRow(m, row, node, fuel) ==
    IF node = row THEN m
    ELSE IF fuel = 0 THEN [m EXCEPT !.hang = TRUE]
    ELSE LET m1 == [m EXCEPT !.U[m.D[node]] = m.U[node]]
             m2 == [m1 EXCEPT !.D[m1.U[node]] = m1.D[node]]
             m3 == [m2 EXCEPT !.S[C[node]] = @ - 1]
         IN  CoverRow(m3, row, m3.R[node], fuel - 1)

\* Outer loop of cover: the rows of column c, top to bottom.
RECURSIVE CoverRows(_, _, _, _)
CoverRows(m, c, row, fuel) ==
    IF row = c \/ m.hang THEN m
    ELSE IF fuel = 0 THEN [m EXCEPT !.hang = TRUE]
    ELSE LET m1 == CoverRow(m, row, m.R[row], Fuel(m))
         IN  CoverRows(m1, c, m1.D[row], fuel - 1)

\* A cover that unlinks the column header and leaves the column's rows in place.
coverHeaderOnly(m, c) ==
    LET m1 == [m EXCEPT !.L[m.R[c]] = m.L[c]]
    IN  [m1 EXCEPT !.R[m1.L[c]] = m1.R[c]]

\* A cover that also resets the covered column's own size.
coverResetsSize(m, c) ==
    LET m1 == [m EXCEPT !.L[m.R[c]] = m.L[c]]
        m2 == [m1 EXCEPT !.R[m1.L[c]] = m1.R[c]]
        m3 == CoverRows(m2, c, m2.D[c], Fuel(m))
    IN  [m3 EXCEPT !.S[c] = 0, !.open = Append(@, c)]

\* The call cover(c) enters the history.
Opened(m, c) == [m EXCEPT !.open = Append(@, c)]

\* The call uncover(c) enters the history: it is in order when cover(c) is the
\* latest cover not yet undone, which it then undoes.
Closed(m, c) ==
    IF m.open # <<>> /\ m.open[Len(m.open)] = c
    THEN [m EXCEPT !.open = SubSeq(@, 1, Len(@) - 1)]
    ELSE [m EXCEPT !.lifo = FALSE]

\* DLX::cover
cover(m, c) ==
    LET m0 == Opened(m, c)
        m1 == [m0 EXCEPT !.L[m0.R[c]] = m0.L[c]]
        m2 == [m1 EXCEPT !.R[m1.L[c]] = m1.R[c]]
    IN  CoverRows(m2, c, m2.D[c], Fuel(m))

\* Inner loop of uncover: every other node of the row re-enters its column.
RECURSIVE UncoverRow(_, _, _, _)
UncoverRow(m, row, node, fuel) ==
    IF node = row THEN m
    ELSE IF fuel = 0 THEN [m EXCEPT !.hang = TRUE]
    ELSE LET m1 == [m EXCEPT !.S[C[node]] = @ + 1]
             m2 == [m1 EXCEPT !.U[m1.D[node]] = node]
             m3 == [m2 EXCEPT !.D[m2.U[node]] = node]
         IN  UncoverRow(m3, row, m3.L[node], fuel - 1)

\* Outer loop of uncover: the rows of column c, bottom to top.
RECURSIVE UncoverRows(_, _, _, _)
UncoverRows(m, c, row, fuel) ==
    IF row = c \/ m.hang THEN m
    ELSE IF fuel = 0 THEN [m EXCEPT !.hang = TRUE]
    ELSE LET m1 == UncoverRow(m, row, m.L[row], Fuel(m))
         IN  UncoverRows(m1, c, m1.U[row], fuel - 1)

\* An uncover that relinks every node and forgets node->C->size++.
RECURSIVE UncoverRowNoSize(_, _, _, _)
UncoverRowNoSize(m, row, node, fuel) ==
    IF node = row THEN m
    ELSE IF fuel = 0 THEN [m EXCEPT !.hang = TRUE]
    ELSE LET m2 == [m EXCEPT !.U[m.D[node]] = node]
             m3 == [m2 EXCEPT !.D[m2.U[node]] = node]
         IN  UncoverRowNoSize(m3, row, m3.L[node], fuel - 1)

RECURSIVE UncoverRowsNoSize(_, _, _, _)
UncoverRowsNoSize(m, c, row, fuel) ==
    IF row = c \/ m.hang THEN m
    ELSE IF fuel = 0 THEN [m EXCEPT !.hang = TRUE]
    ELSE LET m1 == UncoverRowNoSize(m, row, m.L[row], Fuel(m))
         IN  UncoverRowsNoSize(m1, c, m1.U[row], fuel - 1)

uncoverNoSize(m, c) ==
    LET m1 == UncoverRowsNoSize(m, c, m.U[c], Fuel(m))
        m2 == [m1 EXCEPT !.L[m1.R[c]] = c]
        m3 == [m2 EXCEPT !.R[m2.L[c]] = c]
    IN  IF m1.hang THEN m1 ELSE m3

\* An uncover that relinks the column header and restores none of the rows.
uncoverHeaderOnly(m, c) ==
    LET m1 == [m EXCEPT !.L[m.R[c]] = c]
    IN  [m1 EXCEPT !.R[m1.L[c]] = c]

\* DLX::uncover
uncover(m, c) ==
    LET m0 == Closed(m, c)
        m1 == UncoverRows(m0, c, m0.U[c], Fuel(m))
        m2 == [m1 EXCEPT !.L[m1.R[c]] = c]
        m3 == [m2 EXCEPT !.R[m2.L[c]] = c]
    IN  IF m1.hang THEN m1 ELSE m3

\* ------------------------------------------------------- construction
\* A variant of addNode that puts n at the top of column c (below c).
addNodeAtTop(m, c, n) ==
    LET m0 == NewNode(m, n)
        m1 == [m0 EXCEPT !.U[n] = c]
        m2 == [m1 EXCEPT !.D[n] = m1.D[c]]
        m3 == [m2 EXCEPT !.U[m2.D[c]] = n]
        m4 == [m3 EXCEPT !.D[c] = n]
    IN  [m4 EXCEPT !.S[c] = @ + 1]

\* DLX::addNode, the links: n goes to the bottom of column c (above c).
addNode(m, c, n) ==
    LET m0 == NewNode(m, n)
        m1 == [m0 EXCEPT !.D[n] = c]
        m2 == [m1 EXCEPT !.U[n] = m1.U[c]]
        m3 == [m2 EXCEPT !.D[m2.U[c]] = n]
        m4 == [m3 EXCEPT !.U[c] = n]
    IN  [m4 EXCEPT !.S[c] = @ + 1]

\* DLX::linkRow: a[i].R = a[i+1], a[i+1].L = a[i], cyclically.
RECURSIVE linkRow(_, _, _)
linkRow(m, row, i) ==
    IF i > Len(row) THEN m
    ELSE LET a == row[i]
             b == row[(i % Len(row)) + 1]
             m1 == [m EXCEPT !.R[a] = b]
             m2 == [m1 EXCEPT !.L[b] = a]
         IN  linkRow(m2, row, i + 1)

NextId == 1 + Len(cols) + Len(nodes)

\* The column index (0-based, as in cols[colIndex]) of a column id.
IndexOf(c) == c - 1

\* Writes the matrix record back; a walk that never ended leaves the program hung.
Commit(m, nextpc) ==
    /\ L' = m.L /\ R' = m.R /\ U' = m.U /\ D' = m.D /\ size' = m.S
    /\ open' = m.open /\ lifo' = m.lifo
    /\ pc' = IF m.hang THEN "hang" ELSE nextpc

\* The number of sequences of distinct rows out of n rows: no search path chooses
\* a row twice, so a search makes at most this many calls.
RECURSIVE Seqs(_)
Seqs(n) == IF n = 0 THEN 1 ELSE 1 + n * Seqs(n - 1)

\* Each call takes one step on entry and at most two per row it tries, one more to
\* leave, and the caller one to take the result.
StepBound == 4 * Seqs(nrows) + 1

\* One more step of search(); the count is followed up to StepBound.
Tick == steps' = IF steps < StepBound THEN steps + 1 ELSE steps

Snapshot == [L |-> L, R |-> R, U |-> U, D |-> D, S |-> size, sol |-> solution,
             open |-> open]

\* buildSudokuDLX's inner loop: one addNode of the row being built.  The caller
\* passes the row's column indices in increasing order.
AddNode(colIndex) ==
    /\ pc = "build"
    /\ nrows < MaxRows
    /\ colIndex >= 0 /\ colIndex < Len(cols)
    /\ \A k \in 1..Len(rowNodes) : IndexOf(C[rowNodes[k]]) < colIndex
    /\ LET c == cols[colIndex + 1]
           n == NextId
       IN  /\ Commit(addNode(Mx, c, n), "build")
           /\ C' = Ext(C, n, c)
           /\ rowID' = Ext(rowID, n, nrows)
           /\ nodes' = Append(nodes, n)
           /\ rowNodes' = Append(rowNodes, n)
    /\ UNCHANGED <<cols, solution, nrows, stack, ret, results, snap, cstack, covered>>
    /\ UNCHANGED steps

\* DLX::linkRow on the nodes just added; the caller moves on to the next rowID.
LinkRow ==
    /\ pc = "build"
    /\ rowNodes # <<>>
    /\ Commit(linkRow(Mx, rowNodes, 1), "build")
    /\ rowNodes' = <<>>
    /\ nrows' = nrows + 1
    /\ UNCHANGED <<C, rowID, cols, nodes, solution, stack, ret, results, snap, cstack, covered>>
    /\ UNCHANGED steps

\* AddNode with an index outside cols: cols[colIndex] is read out of range, which
\* the language leaves undefined.  The outcomes a build produces: a checked
\* operator[] aborts before anything happens; or the garbage pointer is only
\* dereferenced after `new Node()` and nodes.push_back(n), and the program dies
\* there; or the garbage happens to be some live column g and the call completes
\* on it.  Nothing is claimed of the program after any of them.
AddNodeInvalid(colIndex) ==
    /\ pc = "build"
    /\ nrows < MaxRows
    /\ colIndex < 0 \/ colIndex >= Len(cols)
    /\ \/ /\ pc' = "undefined"
          /\ UNCHANGED <<L, R, U, D, size, C, rowID, nodes, rowNodes>>
       \/ /\ LET m == NewNode(Mx, NextId)
             IN  L' = m.L /\ R' = m.R /\ U' = m.U /\ D' = m.D /\ size' = m.S
          /\ C' = Ext(C, NextId, NullCol)
          /\ rowID' = Ext(rowID, NextId, -1)
          /\ nodes' = Append(nodes, NextId)
          /\ pc' = "undefined"
          /\ UNCHANGED rowNodes
       \/ \E g \in 1..Len(cols) :
             /\ LET m == addNode(Mx, cols[g], NextId)
                IN  L' = m.L /\ R' = m.R /\ U' = m.U /\ D' = m.D /\ size' = m.S
             /\ C' = Ext(C, NextId, cols[g])
             /\ rowID' = Ext(rowID, NextId, nrows)
             /\ nodes' = Append(nodes, NextId)
             /\ rowNodes' = Append(rowNodes, NextId)
             /\ pc' = "undefined"
    /\ UNCHANGED <<cols, solution, nrows, stack, ret, results, snap, cstack, covered,
                   open, lifo>>
    /\ UNCHANGED steps

\* ------------------------------------------------------------ preselect
\* applyInitialSudoku's lookup: the first node of dlx.nodes carrying rowID.
RECURSIVE FindRowNode(_, _)
FindRowNode(rid, i) ==
    IF i > Len(nodes) THEN NullCol
    ELSE IF rowID[nodes[i]] = rid THEN nodes[i]
    ELSE FindRowNode(rid, i + 1)

\* applyInitialSudoku's do-while: cover(cur->C); cur = cur->R; until back at rowNode.
RECURSIVE CoverGiven(_, _, _, _)
CoverGiven(m, rowNode, cur, fuel) ==
    IF fuel = 0 THEN [m EXCEPT !.hang = TRUE]
    ELSE LET m1 == cover(m, C[cur])
             nxt == m1.R[cur]
         IN  IF m1.hang \/ nxt = rowNode THEN m1
             ELSE CoverGiven(m1, rowNode, nxt, fuel - 1)

\* One given of applyInitialSudoku: rid = r*81 + c*9 + (d-1) of a filled cell.
\* The cells are visited in row-major order, so the rowIDs come in increasing order.
Preselect(rid) ==
    /\ pc \in {"build", "given"}
    /\ rowNodes = <<>>
    /\ Len(solution) < MaxPre
    /\ \A k \in DOMAIN solution : solution[k] < rid
    /\ LET rowNode == FindRowNode(rid, 1) IN
       IF rowNode = NullCol
       THEN /\ pc' = "given"
            /\ UNCHANGED <<L, R, U, D, size, solution, open, lifo>>
       ELSE /\ solution' = Append(solution, rid)
            /\ Commit(CoverGiven(Mx, rowNode, rowNode, Fuel(Mx)), "given")
    /\ UNCHANGED <<C, rowID, cols, nodes, rowNodes, nrows, stack, ret, results,
                   snap, cstack, covered>>
    /\ UNCHANGED steps

\* --------------------------------------------------------------- search
\* A column scan that compares with <= and so keeps the last column of least size.
RECURSIVE ScanLastMin(_, _, _, _, _)
ScanLastMin(m, j, c, minSize, fuel) ==
    IF j = head THEN [c |-> c, hang |-> FALSE]
    ELSE IF fuel = 0 THEN [c |-> c, hang |-> TRUE]
    ELSE IF m.S[j] <= minSize THEN ScanLastMin(m, m.R[j], j, m.S[j], fuel - 1)
    ELSE ScanLastMin(m, m.R[j], c, minSize, fuel - 1)

\* The column scan of search: the first column of least size right of head.
RECURSIVE Scan(_, _, _, _, _)
Scan(m, j, c, minSize, fuel) ==
    IF j = head THEN [c |-> c, hang |-> FALSE]
    ELSE IF fuel = 0 THEN [c |-> c, hang |-> TRUE]
    ELSE IF m.S[j] < minSize THEN Scan(m, m.R[j], j, m.S[j], fuel - 1)
    ELSE Scan(m, m.R[j], c, minSize, fuel - 1)

ChooseColumn(m) == Scan(m, m.R[head], NullCol, InitMinSize, Fuel(m))

\* A CoverOthers that covers the column of r->R only (an `if` for the `for`).
CoverOthersFirstOnly(m, r, j, fuel) ==
    IF j = r THEN m ELSE cover(m, C[j])

\* for (j = r->R; j != r; j = j->R) cover(j->C)
RECURSIVE CoverOthers(_, _, _, _)
CoverOthers(m, r, j, fuel) ==
    IF j = r \/ m.hang THEN m
    ELSE IF fuel = 0 THEN [m EXCEPT !.hang = TRUE]
    ELSE LET m1 == cover(m, C[j])
         IN  CoverOthers(m1, r, m1.R[j], fuel - 1)

\* An UncoverOthers that walks the row left to right, as the covering loop does:
\* for (j = r->R; j != r; j = j->R) uncover(j->C)
RECURSIVE UncoverOthersForward(_, _, _, _)
UncoverOthersForward(m, r, j, fuel) ==
    LET RECURSIVE Walk(_, _, _)
        Walk(mm, jj, f) ==
            IF jj = r \/ mm.hang THEN mm
            ELSE IF f = 0 THEN [mm EXCEPT !.hang = TRUE]
            ELSE LET m1 == uncover(mm, C[jj])
                 IN  Walk(m1, m1.R[jj], f - 1)
    IN  Walk(m, m.R[r], fuel)

\* for (j = r->L; j != r; j = j->L) uncover(j->C)
RECURSIVE UncoverOthers(_, _, _, _)
UncoverOthers(m, r, j, fuel) ==
    IF j = r \/ m.hang THEN m
    ELSE IF fuel = 0 THEN [m EXCEPT !.hang = TRUE]
    ELSE LET m1 == uncover(m, C[j])
         IN  UncoverOthers(m1, r, m1.L[j], fuel - 1)

Top == stack[Len(stack)]
Pop(s) == SubSeq(s, 1, Len(s) - 1)

\* The caller (main, through solveSudoku) calls dlx.search(); it may call it again
\* on the same matrix once the call has returned.
SearchCall ==
    /\ \/ pc \in {"build", "given"} /\ rowNodes = <<>>
       \/ pc = "done" /\ Len(results) < MaxCalls
    /\ pc' = "enter"
    /\ stack' = <<>>
    /\ snap' = Snapshot
    /\ UNCHANGED <<L, R, U, D, open, lifo, C, rowID, size, cols, nodes, solution, rowNodes,
                   nrows, ret, results, cstack, covered>>
    /\ steps' = 0

\* search(): if (head.R == &head) return true;
SearchSolved ==
    /\ pc = "enter"
    /\ R[head] = head
    /\ ret' = TRUE
    /\ pc' = "ret"
    /\ UNCHANGED <<L, R, U, D, open, lifo, C, rowID, size, cols, nodes, solution, rowNodes,
                   nrows, stack, results, snap, cstack, covered>>
    /\ Tick

\* search(): the column scan, then if (!c || c->size == 0) return false;
SearchDeadEnd ==
    /\ pc = "enter"
    /\ R[head] # head
    /\ LET sc == ChooseColumn(Mx) IN
       /\ sc.hang \/ sc.c = NullCol \/ size[sc.c] = 0
       /\ pc' = IF sc.hang THEN "hang" ELSE "ret"
    /\ ret' = FALSE
    /\ UNCHANGED <<L, R, U, D, open, lifo, C, rowID, size, cols, nodes, solution, rowNodes,
                   nrows, stack, results, snap, cstack, covered>>
    /\ Tick

\* The recursion is followed to this depth; no search on a matrix with this many
\* columns and rows gets here unless it recurses without end.
DepthCap == Len(cols) + Len(nodes) + 1

\* search(): the column scan, cover(c), and r = c->D.
SearchChoose ==
    /\ pc = "enter"
    /\ R[head] # head
    /\ Len(stack) < DepthCap
    /\ LET sc == ChooseColumn(Mx) IN
       /\ ~sc.hang /\ sc.c # NullCol /\ size[sc.c] # 0
       /\ LET m == cover(Mx, sc.c) IN
          /\ Commit(m, "loop")
          /\ stack' = Append(stack, [c |-> sc.c, r |-> m.D[sc.c]])
    /\ UNCHANGED <<C, rowID, cols, nodes, solution, rowNodes, nrows, ret,
                   results, snap, cstack, covered>>
    /\ Tick

\* search() recursing past DepthCap: the call stack overflows.
SearchOverflow ==
    /\ pc = "enter"
    /\ R[head] # head
    /\ Len(stack) >= DepthCap
    /\ LET sc == ChooseColumn(Mx) IN ~sc.hang /\ sc.c # NullCol /\ size[sc.c] # 0
    /\ pc' = "overflow"
    /\ UNCHANGED <<L, R, U, D, open, lifo, C, rowID, size, cols, nodes, solution, rowNodes,
                   nrows, stack, ret, results, snap, cstack, covered>>
    /\ Tick

\* search(): a row r != c: push its rowID, cover its other columns, recurse.
SearchTryRow ==
    /\ pc = "loop"
    /\ Top.r # Top.c
    /\ solution' = Append(solution, rowID[Top.r])
    /\ Commit(CoverOthers(Mx, Top.r, R[Top.r], Fuel(Mx)), "enter")
    /\ UNCHANGED <<C, rowID, cols, nodes, rowNodes, nrows, stack, ret, results,
                   snap, cstack, covered>>
    /\ Tick

\* An exhaustion that pops solution once more on its way out.
SearchExhaustedPops ==
    /\ pc = "loop"
    /\ stack[Len(stack)].r = stack[Len(stack)].c
    /\ Commit(uncover(Mx, stack[Len(stack)].c), "ret")
    /\ stack' = SubSeq(stack, 1, Len(stack) - 1)
    /\ solution' = SubSeq(solution, 1, Len(solution) - 1)
    /\ ret' = FALSE
    /\ UNCHANGED <<C, rowID, cols, nodes, rowNodes, nrows, results,
                   snap, cstack, covered>>
    /\ Tick

\* search(): r == c, the rows are exhausted: uncover(c); return false;
SearchExhausted ==
    /\ pc = "loop"
    /\ Top.r = Top.c
    /\ Commit(uncover(Mx, Top.c), "ret")
    /\ stack' = Pop(stack)
    /\ ret' = FALSE
    /\ UNCHANGED <<C, rowID, cols, nodes, solution, rowNodes, nrows, results,
                   snap, cstack, covered>>
    /\ Tick

\* A return of true that cleans up on the way out: it uncovers the row's other
\* columns and the chosen column before returning.
SearchPropagateUndo ==
    /\ pc = "ret"
    /\ stack # <<>>
    /\ ret = TRUE
    /\ LET f == stack[Len(stack)]
           m == UncoverOthers(Mx, f.r, L[f.r], Fuel(Mx))
       IN  Commit(IF m.hang THEN m ELSE uncover(m, f.c), "ret")
    /\ stack' = SubSeq(stack, 1, Len(stack) - 1)
    /\ UNCHANGED <<C, rowID, cols, nodes, solution, rowNodes, nrows, ret, results,
                   snap, cstack, covered>>
    /\ Tick

\* search(): if (search()) return true;
SearchPropagate ==
    /\ pc = "ret"
    /\ stack # <<>>
    /\ ret = TRUE
    /\ stack' = Pop(stack)
    /\ UNCHANGED <<L, R, U, D, open, lifo, C, rowID, size, cols, nodes, solution, rowNodes,
                   nrows, pc, ret, results, snap, cstack, covered>>
    /\ Tick

\* A backtrack step that leaves the tried rowID in solution.
SearchBacktrackNoPop ==
    /\ pc = "ret"
    /\ stack # <<>>
    /\ ret = FALSE
    /\ LET m == UncoverOthers(Mx, stack[Len(stack)].r, L[stack[Len(stack)].r], Fuel(Mx)) IN
       /\ Commit(m, "loop")
       /\ stack' = [stack EXCEPT ![Len(stack)].r = m.D[stack[Len(stack)].r]]
    /\ UNCHANGED <<C, rowID, cols, nodes, solution, rowNodes, nrows, ret, results,
                   snap, cstack, covered>>
    /\ Tick

\* A backtrack step that forgets r = r->D and tries the same row again.
SearchBacktrackSameRow ==
    /\ pc = "ret"
    /\ stack # <<>>
    /\ ret = FALSE
    /\ LET m == UncoverOthers(Mx, stack[Len(stack)].r, L[stack[Len(stack)].r], Fuel(Mx)) IN
       Commit(m, "loop")
    /\ solution' = SubSeq(solution, 1, Len(solution) - 1)
    /\ UNCHANGED <<C, rowID, cols, nodes, rowNodes, nrows, stack, ret, results, snap,
                   cstack, covered>>
    /\ Tick

\* search(): the recursive call failed: uncover the row's other columns right to
\* left, pop the rowID, r = r->D.
SearchBacktrack ==
    /\ pc = "ret"
    /\ stack # <<>>
    /\ ret = FALSE
    /\ LET m == UncoverOthers(Mx, Top.r, L[Top.r], Fuel(Mx)) IN
       /\ Commit(m, "loop")
       /\ stack' = [stack EXCEPT ![Len(stack)].r = m.D[Top.r]]
    /\ solution' = Pop(solution)
    /\ UNCHANGED <<C, rowID, cols, nodes, rowNodes, nrows, ret, results, snap,
                   cstack, covered>>
    /\ Tick

\* The outermost search() returns to its caller.
SearchReturn ==
    /\ pc = "ret"
    /\ stack = <<>>
    /\ results' = Append(results, ret)
    /\ pc' = "done"
    /\ UNCHANGED <<L, R, U, D, open, lifo, C, rowID, size, cols, nodes, solution, rowNodes,
                   nrows, stack, ret, snap, cstack, covered>>
    /\ Tick

\* ------------------------------------------- cover / uncover on their own
\* A caller covers columns of a built matrix directly ...
CoverCall(colIndex) ==
    /\ \/ pc = "build" /\ rowNodes = <<>>
       \/ pc = "covering"
    /\ Len(cstack) < MaxCovers
    /\ colIndex \in 0..(Len(cols) - 1)
    /\ Commit(cover(Mx, cols[colIndex + 1]), "covering")
    /\ cstack' = Append(cstack, cols[colIndex + 1])
    /\ covered' = Append(covered, cols[colIndex + 1])
    /\ snap' = IF cstack = <<>> THEN Snapshot ELSE snap
    /\ UNCHANGED <<C, rowID, cols, nodes, solution, rowNodes, nrows, stack, ret,
                   results>>
    /\ UNCHANGED steps

\* ... and then uncovers them in the exact reverse order.
UncoverCall ==
    /\ pc \in {"covering", "uncovering"}
    /\ cstack # <<>>
    /\ Commit(uncover(Mx, cstack[Len(cstack)]),
              IF Len(cstack) = 1 THEN "uncovered" ELSE "uncovering")
    /\ cstack' = Pop(cstack)
    /\ UNCHANGED <<C, rowID, cols, nodes, solution, rowNodes, nrows, stack, ret,
                   results, snap, covered>>
    /\ UNCHANGED steps

\* Building the matrix.
Build ==
    \/ \E i \in 0..(MaxCols - 1) : AddNode(i)
    \/ LinkRow
    \/ \E i \in {-1, Len(cols)} : AddNodeInvalid(i)

\* main: build, apply the givens, search (and search again).
Next ==
    \/ Build
    \/ \E rid \in 0..(MaxRows - 1) : Preselect(rid)
    \/ SearchCall
    \/ SearchSolved
    \/ SearchDeadEnd
    \/ SearchChoose
    \/ SearchOverflow
    \/ SearchTryRow
    \/ SearchExhausted
    \/ SearchPropagate
    \/ SearchBacktrack
    \/ SearchReturn

Spec == Init /\ [][Next]_vars

\* The steps of a search() call in progress.  The program is sequential: once
\* called, search keeps executing until it returns or faults.
SearchStep ==
    \/ SearchSolved
    \/ SearchDeadEnd
    \/ SearchChoose
    \/ SearchOverflow
    \/ SearchTryRow
    \/ SearchExhausted
    \/ SearchPropagate
    \/ SearchBacktrack
    \/ SearchReturn

\* A caller that builds a matrix and then uses cover / uncover directly.
NextCover ==
    \/ Build
    \/ \E i \in 0..(MaxCols - 1) : CoverCall(i)
    \/ UncoverCall

SpecCover == Init /\ [][NextCover]_vars

\* ------------------------------------------------ what the matrix encodes
DataNodes == {nodes[i] : i \in DOMAIN nodes}
Columns == {cols[i] : i \in DOMAIN cols}
RowIds == {rowID[n] : n \in DataNodes}
SeqSet(s) == {s[i] : i \in DOMAIN s}

\* The columns the candidate row rid touches.
RowCols(rid) == {C[n] : n \in {x \in DataNodes : rowID[x] = rid}}

\* The rows of a solution sequence touch pairwise disjoint column sets.
Disjoint(sol) ==
    \A i, j \in DOMAIN sol : i # j => RowCols(sol[i]) \cap RowCols(sol[j]) = {}

\* How many entries of the sequence sol are rows touching column c.
Touches(sol, c) == Cardinality({i \in DOMAIN sol : c \in RowCols(sol[i])})

IsExactCover(S) == \A c \in Columns : Cardinality({r \in S : c \in RowCols(r)}) = 1

\* The outermost search() has returned b to its caller.
Returned(b) == pc = "done" /\ results[Len(results)] = b

\* C1: exact-cover soundness.  When search returns true on a matrix whose
\* preselected rows (the solution at call time) are pairwise column-disjoint, the
\* rows in solution touch every column exactly once.
ExactCoverSoundness ==
    (Returned(TRUE) /\ Disjoint(snap.sol)) =>
        \A c \in Columns : Touches(solution, c) = 1

\* C1 witness: a search that succeeded after a preselected row and chose further rows.
ExactCoverSoundnessWitness ==
    /\ Returned(TRUE)
    /\ Len(results) = 1
    /\ Len(snap.sol) = 1
    /\ Len(solution) = 3
    /\ Disjoint(snap.sol)

\* The 4-column instance A = {0,1}, B = {2,3}, C = {0,2}, rows added in any order.
IsABC ==
    /\ Len(cols) = 4
    /\ nrows = 3
    /\ rowNodes = <<>>
    /\ {RowCols(r) : r \in RowIds} =
           {{cols[1], cols[2]}, {cols[3], cols[4]}, {cols[1], cols[3]}}
    /\ Cardinality(RowIds) = 3

\* C2: completeness.  With pairwise column-disjoint preselected rows, search
\* returns false only if no exact cover contains the preselected rows, and it
\* neither hangs nor overflows; on the instance A, B, C it returns true with
\* solution holding exactly A and B.
Completeness ==
    /\ (Returned(FALSE) /\ Disjoint(snap.sol)) =>
           ~ \E S \in SUBSET RowIds : SeqSet(snap.sol) \subseteq S /\ IsExactCover(S)
    /\ (pc \in {"hang", "overflow"}) => ~Disjoint(snap.sol)
    /\ (pc = "done" /\ IsABC /\ snap.sol = <<>>) =>
           /\ results[1] = TRUE
           /\ Len(solution) = 2
           /\ {RowCols(r) : r \in SeqSet(solution)} =
                  {{cols[1], cols[2]}, {cols[3], cols[4]}}

\* C2 witness: the instance A, B, C has been searched.
CompletenessWitness ==
    /\ pc = "done" /\ IsABC /\ snap.sol = <<>> /\ results = <<TRUE>>

\* ------------------------------------------------- cover / uncover round trip
Restored ==
    L = snap.L /\ R = snap.R /\ U = snap.U /\ D = snap.D /\ size = snap.S

IsDistinct(s) == \A i, j \in DOMAIN s : i # j => s[i] # s[j]

\* C3 as stated: after any sequence of cover calls and the exact-reverse sequence
\* of uncover calls, every link and every size is what it was before the first cover.
RoundTripAnySequence == pc = "uncovered" => Restored

\* C3 as amended: the same, for cover calls on pairwise distinct columns.
RoundTripDistinctColumns ==
    (pc = "uncovered" /\ IsDistinct(covered)) => Restored

\* C3 witness: three distinct columns were covered and uncovered, one of them
\* holding a node of a row that reaches into another column.
RoundTripWitness ==
    /\ pc = "uncovered"
    /\ Len(covered) = 3
    /\ IsDistinct(covered)
    /\ \E n \in DataNodes : C[n] = covered[1] /\ R[n] # n /\ C[R[n]] = covered[2]

\* ----------------------------------------------------- rings and sizes
\* The columns met walking R from head until head is met again.
RECURSIVE LiveWalk(_, _, _, _)
LiveWalk(m, j, acc, fuel) ==
    IF j = head \/ fuel = 0 THEN acc
    ELSE LiveWalk(m, m.R[j], Append(acc, j), fuel - 1)

LiveSeq(m) == LiveWalk(m, m.R[head], <<>>, Fuel(m))
Live(m) == SeqSet(LiveSeq(m))

\* The nodes met walking D from the header c until c is met again.
RECURSIVE DownWalk(_, _, _, _, _)
DownWalk(m, c, n, acc, fuel) ==
    IF n = c \/ fuel = 0 THEN acc
    ELSE DownWalk(m, c, m.D[n], Append(acc, n), fuel - 1)

DownSeq(m, c) == DownWalk(m, c, m.D[c], <<>>, Fuel(m))

\* The nodes met walking U from the header c until c is met again.
RECURSIVE UpWalk(_, _, _, _, _)
UpWalk(m, c, n, acc, fuel) ==
    IF n = c \/ fuel = 0 THEN acc
    ELSE UpWalk(m, c, m.U[n], Append(acc, n), fuel - 1)

UpSeq(m, c) == UpWalk(m, c, m.U[c], <<>>, Fuel(m))

\* The positions of a program that has called search().
SearchPcs == {"enter", "loop", "ret", "done", "hang", "overflow"}

\* C4: a top-level search that returns false leaves every link and every size as
\* it was when search was called, and a second call returns false again.
FailedSearchRestores ==
    /\ Returned(FALSE) => Restored
    /\ (Len(results) = 2 /\ results[1] = FALSE) => results[2] = FALSE

\* C5: after addNode, cover, uncover and at every entry to and return from search,
\* every live column's size is the number of nodes in its vertical ring.
SizeAccounting ==
    pc # "undefined" =>
        \A c \in Live(Mx) : size[c] = Len(DownSeq(Mx, c))

\* C6: after a contradictory preselection (two preselected rows share a column)
\* search returns false: it neither returns true nor faults.
ContradictionReported ==
    (pc \in SearchPcs /\ ~Disjoint(snap.sol)) =>
        /\ pc \notin {"hang", "overflow"}
        /\ (pc = "ret" /\ stack = <<>>) => ret = FALSE
        /\ pc = "done" => results[Len(results)] = FALSE

\* C7: a search called while some live column has size 0 terminates and returns
\* false.
ZeroAtCall == \E c \in Live(snap) : snap.S[c] = 0

UnsatDetection ==
    (pc \in SearchPcs /\ ZeroAtCall) =>
        /\ pc \notin {"hang", "overflow"}
        /\ (pc = "ret" /\ stack = <<>>) => ret = FALSE
        /\ pc = "done" => results[Len(results)] = FALSE

Reverse(s) == [i \in DOMAIN s |-> s[Len(s) + 1 - i]]

\* C8 as stated: after the constructor, walking right from head visits the columns
\* in insertion order 0, 1, ..., n-1.
ColumnOrderIsInsertionOrder == pc = "build" => LiveSeq(Mx) = cols

\* C8 as amended: walking right from head visits the columns in the reverse of
\* insertion order, n-1, ..., 1, 0.
ColumnOrderIsReverseInsertionOrder == pc = "build" => LiveSeq(Mx) = Reverse(cols)

\* C8 witness: a constructed matrix of at least three columns, the last one first.
ColumnOrderWitness ==
    /\ pc = "build"
    /\ Len(cols) >= 3
    /\ R[head] = cols[Len(cols)]
    /\ R[cols[1]] = head

\* C9 as stated: when the top-level search returns false, solution is empty.
SolutionEmptyAtExhaustion == Returned(FALSE) => solution = <<>>

\* C9 as amended: when the top-level search returns false, solution holds exactly
\* the rowIDs it held when search was called (the preselected ones).
SolutionAsAtCallAtExhaustion == Returned(FALSE) => solution = snap.sol

\* C9 witness: a search that had rows to try failed after a preselection.
SolutionAtExhaustionWitness ==
    /\ Returned(FALSE)
    /\ Len(results) = 1
    /\ snap.sol # <<>>
    /\ solution = snap.sol
    /\ Live(snap) # {}
    /\ \A c \in Live(snap) : snap.S[c] > 0

\* C10: addNode with a column index out of range is rejected: no node is created
\* and no link, size or the node list changes.
InvalidIndexRejected ==
    [][pc' = "undefined" =>
          /\ nodes' = nodes
          /\ L' = L /\ R' = R /\ U' = U /\ D' = D /\ size' = size]_vars

\* ------------------------------------------------------ nesting of cover / uncover
\* C11: inside search every uncover(x) is issued when cover(x) is the most recent
\* cover not yet undone (so a failed row's columns are uncovered in the reverse of
\* the order they were covered, and before the chosen column), and a search that
\* returns false has undone every cover it made.
StrictLifoNesting ==
    /\ lifo
    /\ Returned(FALSE) => open = snap.open

\* C11 witness: a search without givens, on a matrix whose columns all have rows,
\* tried first a row with at least two other columns, failed below it, uncovered
\* them and returned false.
StrictLifoNestingWitness ==
    /\ Returned(FALSE)
    /\ Len(results) = 1
    /\ snap.sol = <<>>
    /\ \A c \in Live(Mx) : size[c] > 0
    /\ LET r == D[ChooseColumn(Mx).c] IN R[r] # r /\ R[R[r]] # r

\* ------------------------------------------------------------ live nodes
\* The live nodes: head and the headers in the header ring, and the data nodes
\* in the vertical rings of those headers.
LiveNodes ==
    {head} \cup Live(Mx) \cup UNION {SeqSet(DownSeq(Mx, c)) : c \in Live(Mx)}

Linked(n) == R[L[n]] = n /\ L[R[n]] = n /\ D[U[n]] = n /\ U[D[n]] = n

\* C12: between operations every live node n has n.L.R == n, n.R.L == n,
\* n.U.D == n and n.D.U == n.
RingInvariant ==
    pc # "undefined" => \A n \in LiveNodes : Linked(n)

\* ------------------------------------------------------- partial solutions
\* The columns touched by the rows of a solution sequence.
SolutionCols(sol) == UNION {RowCols(sol[i]) : i \in DOMAIN sol}

\* C13: at every entry to search (top-level and recursive) after no or pairwise
\* column-disjoint preselection, the rows in solution are pairwise column-disjoint
\* and the columns absent from the header ring are exactly the columns they touch.
PartialSolutionInvariant ==
    (pc = "enter" /\ Disjoint(snap.sol)) =>
        /\ Disjoint(solution)
        /\ Columns \ Live(Mx) = SolutionCols(solution)

\* C13 witness: the entry to a search two levels below the top-level call, which
\* itself began after one preselected row.
PartialSolutionWitness ==
    /\ pc = "enter"
    /\ Len(stack) = 2
    /\ Len(snap.sol) = 1
    /\ Len(solution) = 3
    /\ Disjoint(snap.sol)

\* --------------------------------------------------------- column choice
\* c is a live column of least size in m, and the first such walking right from head.
IsFirstMinimum(m, c) ==
    LET live == LiveSeq(m) IN
    /\ c # head
    /\ \E k \in DOMAIN live :
          /\ live[k] = c
          /\ \A i \in DOMAIN live : m.S[live[i]] >= m.S[c]
          /\ \A i \in 1..(k - 1) : m.S[live[i]] > m.S[c]

\* C14: in every search call whose header ring is not empty, the column chosen for
\* branching is a live column of least size, the first of them met walking right
\* from head, and never head; the call gives up without branching only when that
\* least size is 0.
MinSizeColumnChosen ==
    [][/\ (pc = "enter" /\ pc' = "loop") =>
             IsFirstMinimum(Mx, stack'[Len(stack')].c)
       /\ (pc = "enter" /\ pc' = "ret" /\ R[head] # head) =>
             \E c \in Live(Mx) : size[c] = 0 /\ IsFirstMinimum(Mx, c)]_vars

\* C14 witness: the top-level call chose a column that has a larger column before
\* it and a column of the same size after it in the header ring.
MinSizeColumnWitness ==
    /\ pc = "loop"
    /\ Len(stack) = 1
    /\ results = <<>>
    /\ LET live == LiveSeq(snap)
           c == stack[1].c
       IN  \E k \in DOMAIN live :
              /\ live[k] = c
              /\ \E i \in 1..(k - 1) : snap.S[live[i]] > snap.S[c]
              /\ \E i \in (k + 1)..Len(live) : snap.S[live[i]] = snap.S[c]

\* ------------------------------------------------------------- success
\* The columns of the other nodes of row node r, in the order r->R, r->R->R, ...
RECURSIVE OthersRight(_, _, _)
OthersRight(r, j, fuel) ==
    IF j = r \/ fuel = 0 THEN <<>>
    ELSE <<C[j]>> \o OthersRight(r, R[j], fuel - 1)

\* The cover calls of the frames 1..k of the stack: each frame's chosen column,
\* then the other columns of its row.
RECURSIVE PathCovers(_)
PathCovers(k) ==
    IF k = 0 THEN <<>>
    ELSE PathCovers(k - 1) \o <<stack[k].c>>
             \o OthersRight(stack[k].r, R[stack[k].r], Fuel(Mx))

Suffix(s, n) == SubSeq(s, n + 1, Len(s))

\* C15: when search returns true the header ring is empty, the covers made along
\* the successful path are all still in place, and solution is its content at the
\* call followed by the rowIDs chosen along the path in order; a call made with the
\* header ring already empty returns true and changes neither matrix nor solution.
SuccessLeavesCovered ==
    (pc \in {"ret", "done"} /\ ret) =>
        /\ R[head] = head
        /\ Len(solution) >= Len(snap.sol)
        /\ SubSeq(solution, 1, Len(snap.sol)) = snap.sol
        /\ Len(open) >= Len(snap.open)
        /\ SubSeq(open, 1, Len(snap.open)) = snap.open
        /\ SeqSet(Suffix(open, Len(snap.open))) =
               SolutionCols(Suffix(solution, Len(snap.sol)))
        /\ \A i \in DOMAIN stack : solution[Len(snap.sol) + i] = rowID[stack[i].r]
        /\ Len(stack) = Len(solution) - Len(snap.sol) =>
               open = snap.open \o PathCovers(Len(stack))
        /\ snap.R[head] = head =>
               Restored /\ solution = snap.sol /\ open = snap.open

\* C15 witness: the innermost call of a path of two chosen rows, one of them with
\* several columns, has just returned true.
SuccessLeavesCoveredWitness ==
    /\ pc = "ret" /\ ret
    /\ Len(stack) = 2
    /\ Len(solution) = Len(snap.sol) + 2
    /\ R[stack[1].r] # stack[1].r
    /\ results = <<>>

\* ------------------------------------------------------------ whole rows
\* The data nodes in the vertical rings of the live columns.
Reachable == UNION {SeqSet(DownSeq(Mx, c)) : c \in Live(Mx)}

RowNodes(rid) == {n \in DataNodes : rowID[n] = rid}

RowPresent(rid) ==
    RowNodes(rid) \subseteq Reachable /\ RowCols(rid) \subseteq Live(Mx)

RowAbsent(rid) == RowNodes(rid) \cap Reachable = {}

\* C16: at every entry to and return from search, after no or pairwise
\* column-disjoint preselection, every row either has all of its nodes in the
\* vertical rings of live columns and touches live columns only, or has none of
\* its nodes in the vertical ring of any live column.
RowsAtomic ==
    (pc \in {"enter", "ret", "done"} /\ Disjoint(snap.sol)) =>
        \A rid \in RowIds : RowPresent(rid) \/ RowAbsent(rid)

\* C16 witness: at the entry to a recursive call one row of several nodes is
\* wholly present and another row of several nodes, not a chosen one, is wholly
\* removed.
RowsAtomicWitness ==
    /\ pc = "enter"
    /\ Len(stack) = 1
    /\ Disjoint(snap.sol)
    /\ \E a, b \in RowIds :
          /\ Cardinality(RowNodes(a)) >= 2 /\ RowPresent(a)
          /\ Cardinality(RowNodes(b)) >= 2 /\ RowAbsent(b)
          /\ b \notin SeqSet(solution)

\* ------------------------------------------------- frame of cover / uncover
\* The nodes a call splices out or back: the other nodes of the rows that have
\* a node in the walk it makes through c's vertical ring (cover walks D from c,
\* uncover walks U from c).
Spliced(ring) ==
    {n \in DataNodes :
        \E r \in SeqSet(ring) : rowID[n] = rowID[r] /\ n # r}

\* What a call of cover(c) or uncover(c) that walks ring leaves alone.
CoverFrame(c, ring) ==
    /\ nodes' = nodes /\ cols' = cols /\ C' = C /\ rowID' = rowID
    /\ DOMAIN L' = DOMAIN L /\ DOMAIN size' = DOMAIN size
    /\ \A n \in DataNodes : L'[n] = L[n] /\ R'[n] = R[n]
    /\ L'[c] = L[c] /\ R'[c] = R[c] /\ U'[c] = U[c] /\ D'[c] = D[c]
    /\ size'[c] = size[c]
    /\ \A n \in SeqSet(ring) : U'[n] = U[n] /\ D'[n] = D[n]
    /\ \A n \in DataNodes : C[n] = c => U'[n] = U[n] /\ D'[n] = D[n]
    /\ \A h \in DOMAIN size : L'[h] # L[h] => h = R[c]
    /\ \A h \in DOMAIN size : R'[h] # R[h] => h = L[c]
    /\ \A x \in DOMAIN U :
          (U'[x] # U[x] \/ D'[x] # D[x]) =>
              C[x] # c /\ C[x] \in {C[n] : n \in Spliced(ring)}
    /\ \A h \in DOMAIN size :
          size'[h] # size[h] => h # c /\ h \in {C[n] : n \in Spliced(ring)}

\* C17: cover(c) and uncover(c) create and destroy no node, leave the L, R, rowID
\* and C of every data node, c's own L, R, U, D and size and the U, D of the nodes
\* of c's vertical ring as they were, and change only the L / R of c's two
\* neighbours in the header ring, U / D in the other columns of the spliced nodes,
\* and the sizes of those columns.
CoverUncoverFrame ==
    [][/\ Len(cstack') = Len(cstack) + 1 =>
            CoverFrame(cstack'[Len(cstack')], DownSeq(Mx, cstack'[Len(cstack')]))
       /\ Len(cstack') = Len(cstack) - 1 =>
            CoverFrame(cstack[Len(cstack)], UpSeq(Mx, cstack[Len(cstack)]))]_vars

\* C17 witness: two columns were covered and the second, which holds a node of a
\* row with several nodes, has been uncovered again.
CoverUncoverFrameWitness ==
    /\ pc = "uncovering"
    /\ Len(covered) = 2
    /\ Len(cstack) = 1
    /\ covered[1] # covered[2]
    /\ \E n \in DataNodes : C[n] = covered[2] /\ R[n] # n

\* ------------------------------------------------ solution after a failure
\* The rowIDs pushed by the calls that are still active: one per frame.
Pushed == [i \in 1..Len(stack) |-> rowID[stack[i].r]]

\* C18: whenever a search call, top-level or recursive, returns false, solution is
\* element for element what it was when that call was entered: the content at the
\* top-level call (the preselected rowIDs, in order) followed by the rowIDs pushed
\* by the calls still active above it.
FailedSearchRestoresSolution ==
    (pc \in {"ret", "done"} /\ ~ret) => solution = snap.sol \o Pushed

\* C18 witness: a recursive call that had rows to try in every live column has
\* returned false to the call that pushed one rowID.
FailedSearchRestoresSolutionWitness ==
    /\ pc = "ret" /\ ~ret
    /\ Len(stack) = 1
    /\ Live(Mx) # {}
    /\ \A c \in Live(Mx) : size[c] > 0
    /\ solution = snap.sol \o <<rowID[stack[1].r]>>

\* ---------------------------------------------------------- termination
InSearch == pc \in {"enter", "loop", "ret"}

\* C19: every search call on a validly built matrix, after no or pairwise
\* column-disjoint preselection, returns: it never faults (a walk that does not
\* end, a recursion without end), and while it is in progress it has taken fewer
\* steps than StepBound, a number fixed by the matrix.
SearchTerminates ==
    Disjoint(snap.sol) =>
        /\ pc \notin {"hang", "overflow"}
        /\ InSearch => steps < StepBound

\* C19 witness: a search without givens whose first column had at least two rows
\* tried them all, each failing below, and returned.
SearchTerminatesWitness ==
    /\ Returned(FALSE)
    /\ Len(results) = 1
    /\ snap.sol = <<>>
    /\ Live(Mx) # {}
    /\ size[ChooseColumn(Mx).c] >= 2

\* ------------------------------------------------------- recursion depth
\* The recursive search invocations active below the top-level call: the rowIDs
\* search has pushed and not yet popped.
Depth == Len(solution) - Len(snap.sol)

\* C20: at every point of a search the number of recursive invocations active
\* below the top-level call is at most the number of columns of the matrix.
RecursionDepthBound ==
    pc \in SearchPcs => Depth <= Len(cols)

\* ------------------------------------------------- addNode appends at bottom
\* The nodes of column c in the order addNode created them.
ColumnNodes(ns, cf, c) == SelectSeq(ns, LAMBDA n : cf[n] = c)

\* C21: a call of addNode with a valid index leaves every column's vertical ring,
\* walked downward from its header, in creation order, with the new node
\* immediately above its header; it increases that column's size by exactly 1
\* and changes no other column's ring or size.
AddNodeAppendsAtBottom ==
    [][(pc = "build" /\ pc' = "build" /\ Len(nodes') = Len(nodes) + 1) =>
          LET n == nodes'[Len(nodes')]
              c == C'[n]
              after == [L |-> L', R |-> R', U |-> U', D |-> D', S |-> size',
                        hang |-> FALSE, open |-> open', lifo |-> lifo']
          IN  /\ c \in Columns
              /\ \A h \in Columns : DownSeq(after, h) = ColumnNodes(nodes', C', h)
              /\ U'[c] = n
              /\ size'[c] = size[c] + 1
              /\ \A h \in Columns \ {c} :
                    size'[h] = size[h] /\ U'[h] = U[h] /\ D'[h] = D[h]
              /\ \A x \in DataNodes :
                    C[x] # c => U'[x] = U[x] /\ D'[x] = D[x]]_vars

\* C21 witness: a column holds three nodes, of three rows, and another column
\* holds a node created between them.
AddNodeAppendsAtBottomWitness ==
    /\ pc = "build"
    /\ \E c, h \in Columns :
          /\ c # h
          /\ Len(ColumnNodes(nodes, C, c)) = 3
          /\ \E n \in DataNodes :
                /\ C[n] = h
                /\ ColumnNodes(nodes, C, c)[1] < n
                /\ n < ColumnNodes(nodes, C, c)[3]
          /\ U[c] = ColumnNodes(nodes, C, c)[3]

====
